---------------------------- MODULE Spec2Model ----------------------------
(***************************************************************************)
(* A model of the ray tracer of src/src/structs.rs and of the update loop  *)
(* of src/src/main.rs.                                                     *)
(*                                                                         *)
(* Numbers.  The program computes in f64.  The model computes in exact     *)
(* rational arithmetic: a number is a record [n, d] in lowest terms with   *)
(* d > 0.  Rounding of f64 is therefore not modelled; NaN and infinity     *)
(* are modelled only where the code can produce them from finite inputs    *)
(* (a division by a zero distance in the luminosity, see Blend).           *)
(*                                                                         *)
(* Angles.  An angle is a record [deg, h] standing for                     *)
(* deg*(pi/180) + h/100 radians (deg_to_rad(deg) plus h steps of 0.01).    *)
(* sin and cos are exact for h = 0 and deg a multiple of 90, and that is   *)
(* the only case in which the model evaluates them.                        *)
(*                                                                         *)
(* Normalised directions.  normalize() divides by an irrational length.    *)
(* A ray is [origin, direction, norm2] and stands for the program's ray    *)
(* with direction  direction / sqrt(norm2);  norm2 = 1 for a direction     *)
(* the code uses as it is.  Every comparison the code makes on a value     *)
(* that depends on the length of the direction is made on its square.      *)
(***************************************************************************)
EXTENDS Integers, Sequences, FiniteSets, TLC

VARIABLES
    objects,        \* Scene.objects: the ordered collection of scene objects
    camera,         \* Scene.current_camera
    render_index,   \* ExampleProgram.render_index
    complete,       \* ExampleProgram.complete
    pc,             \* position inside on_user_update / cast_ray / a direct call
    iter,           \* the counter of the render loop of on_user_update
    drawn,          \* the cells of the olc::draw calls of the running update, in order
    casts,          \* the indices of the cast_ray calls of the running update, in order
    seen,           \* the scene each cast_ray call of the running update read, in order
    keys,           \* the keys olc::get_key reported held in the last update
    pre,            \* the scene as it was when the running update began
    ticks,          \* number of updates that have returned
    ray,            \* the ray of the last call of trace / ray_hit
    ret,            \* the value the last call of trace / ray_hit returned
    hit,            \* cast_ray: the primary hit
    reflect_hit,    \* cast_ray: the hit of the reflection ray
    mix_color,      \* cast_ray: the pixel colour
    li,             \* cast_ray: index of the next light in the running light loop
    primary_color   \* cast_ray: mix_color as the primary light loop left it

vars == <<objects, camera, render_index, complete, pc, iter, drawn, casts, seen,
          keys, pre, ticks, ray, ret, hit, reflect_hit, mix_color, li, primary_color>>

-----------------------------------------------------------------------------
(* Option<T>: None is the empty sequence, Some(v) the sequence <<v>>.       *)

None == <<>>

Some(v) == <<v>>

IsSome(o) == Len(o) = 1

Unwrap(o) == o[1]

-----------------------------------------------------------------------------
(* Exact rationals standing for f64.                                        *)

Abs(i) == IF i < 0 THEN -i ELSE i

RECURSIVE GCD(_, _)
GCD(a, b) == IF b = 0 THEN a ELSE GCD(b, a % b)

RatOver(n, d, g) ==
    IF d < 0 THEN [n |-> (-n) \div g, d |-> (-d) \div g]
    ELSE [n |-> n \div g, d |-> d \div g]

Rat(n, d) == IF d = 1 THEN [n |-> n, d |-> 1] ELSE RatOver(n, d, GCD(Abs(n), Abs(d)))

R(i) == [n |-> i, d |-> 1]

(* Sums over the least common denominator and products with the common     *)
(* factors cancelled first: the same values with smaller intermediates.     *)
RAddOver(a, b, g) ==
    Rat(a.n * (b.d \div g) + b.n * (a.d \div g), (a.d \div g) * b.d)

RAdd(a, b) ==
    IF a.d = 1 /\ b.d = 1 THEN [n |-> a.n + b.n, d |-> 1]
    ELSE RAddOver(a, b, GCD(a.d, b.d))

RNeg(a) == [n |-> -a.n, d |-> a.d]

RSub(a, b) == RAdd(a, RNeg(b))

RMulOver(a, b, g1, g2) ==
    Rat((a.n \div g1) * (b.n \div g2), (a.d \div g2) * (b.d \div g1))

RMul(a, b) ==
    IF a.d = 1 /\ b.d = 1 THEN [n |-> a.n * b.n, d |-> 1]
    ELSE IF a.n = 0 \/ b.n = 0 THEN R(0)
    ELSE RMulOver(a, b, GCD(Abs(a.n), b.d), GCD(Abs(b.n), a.d))

RDiv(a, b) ==
    IF b.n = 0 THEN Rat(a.n * b.d, a.d * b.n)
    ELSE RMul(a, Rat(b.d, b.n))

RLt(a, b) == RSub(a, b).n < 0

RLe(a, b) == RSub(a, b).n <= 0

-----------------------------------------------------------------------------
(* Vec3 (structs.rs:9-77).                                                  *)

Vec3(x, y, z) == [x |-> x, y |-> y, z |-> z]

V(x, y, z) == Vec3(R(x), R(y), R(z))

VSub(u, v) == Vec3(RSub(u.x, v.x), RSub(u.y, v.y), RSub(u.z, v.z))

VAdd(u, v) == Vec3(RAdd(u.x, v.x), RAdd(u.y, v.y), RAdd(u.z, v.z))

VMul(u, k) == Vec3(RMul(u.x, k), RMul(u.y, k), RMul(u.z, k))

Cross(u, v) ==
    Vec3(RSub(RMul(u.y, v.z), RMul(u.z, v.y)),
         RSub(RMul(u.z, v.x), RMul(u.x, v.z)),
         RSub(RMul(u.x, v.y), RMul(u.y, v.x)))

Dot(u, v) == RAdd(RAdd(RMul(u.x, v.x), RMul(u.y, v.y)), RMul(u.z, v.z))

(* Vec3::dist is a square root; the model keeps its square, and compares    *)
(* distances by comparing squares (both sides are non-negative).            *)
Dist2(u, v) ==
    RAdd(RAdd(RMul(RSub(v.x, u.x), RSub(v.x, u.x)),
              RMul(RSub(v.y, u.y), RSub(v.y, u.y))),
         RMul(RSub(v.z, u.z), RSub(v.z, u.z)))

-----------------------------------------------------------------------------
(* Rot3 (structs.rs:79-97) and Vec3::rotate (structs.rs:54-76).             *)

Angle(deg, h) == [deg |-> deg, h |-> h]

Rot3(yaw, pitch, roll) == [yaw |-> yaw, pitch |-> pitch, roll |-> roll]

Rot3New == Rot3(Angle(0, 0), Angle(0, 0), Angle(0, 0))

(* f64::sin and f64::cos of a quarter-turn angle; no other is evaluated.    *)
Sin(a) ==
    CASE a.h = 0 /\ a.deg % 360 = 0 -> R(0)
      [] a.h = 0 /\ a.deg % 360 = 90 -> R(1)
      [] a.h = 0 /\ a.deg % 360 = 180 -> R(0)
      [] a.h = 0 /\ a.deg % 360 = 270 -> R(-1)

Cos(a) ==
    CASE a.h = 0 /\ a.deg % 360 = 0 -> R(1)
      [] a.h = 0 /\ a.deg % 360 = 90 -> R(0)
      [] a.h = 0 /\ a.deg % 360 = 180 -> R(-1)
      [] a.h = 0 /\ a.deg % 360 = 270 -> R(0)

Rotate(v, rot) ==
    LET su == Sin(rot.roll)
        cu == Cos(rot.roll)
        sv == Sin(rot.pitch)
        cv == Cos(rot.pitch)
        sw == Sin(rot.yaw)
        cw == Cos(rot.yaw)
        r11 == RMul(cv, cw)
        r12 == RSub(RMul(RMul(su, sv), cw), RMul(cu, sw))
        r13 == RAdd(RMul(su, sw), RMul(RMul(cu, sv), cw))
        r21 == RMul(cv, sw)
        r22 == RAdd(RMul(cu, cw), RMul(RMul(su, sv), sw))
        r23 == RSub(RMul(RMul(cu, sv), sw), RMul(su, cw))
        r31 == RSub(R(0), sv)
        r32 == RMul(su, cv)
        r33 == RMul(cu, cv)
    IN  Vec3(RAdd(RAdd(RMul(r11, v.x), RMul(r12, v.y)), RMul(r13, v.z)),
             RAdd(RAdd(RMul(r21, v.x), RMul(r22, v.y)), RMul(r23, v.z)),
             RAdd(RAdd(RMul(r31, v.x), RMul(r32, v.y)), RMul(r33, v.z)))

-----------------------------------------------------------------------------
(* Color, Material (structs.rs:252-264).                                    *)

Color(r, g, b) == [r |-> r, g |-> g, b |-> b]

Material(color) == [transparency |-> 0, reflectivity |-> 0, color |-> color]

-----------------------------------------------------------------------------
(* Ray (structs.rs:286-302).                                                *)

Ray(origin, direction) == [origin |-> origin, direction |-> direction, norm2 |-> R(1)]

(* Vec3::normalize (structs.rs:45-52): a vector of squared length 0 is      *)
(* returned as it is, any other is scaled by 1/sqrt(len_squared).           *)
Normalized(origin, v) ==
    LET len_squared == Dot(v, v)
    IN  IF RLt(R(0), len_squared)
        THEN [origin |-> origin, direction |-> v, norm2 |-> len_squared]
        ELSE [origin |-> origin, direction |-> v, norm2 |-> R(1)]

RayFromTo(origin, destination) == Normalized(origin, VSub(destination, origin))

-----------------------------------------------------------------------------
(* Tri (structs.rs:99-153).                                                 *)

Tri(a, b, c, mat) == [a |-> a, b |-> b, c |-> c, mat |-> mat]

TransformedRot(tri, rot) ==
    Tri(Rotate(tri.a, rot), Rotate(tri.b, rot), Rotate(tri.c, rot), tri.mat)

TransformedPos(tri, pos) ==
    Tri(Vec3(RAdd(tri.a.x, pos.x), RAdd(tri.a.y, pos.y), RAdd(tri.a.z, pos.z)),
        Vec3(RAdd(tri.b.x, pos.x), RAdd(tri.b.y, pos.y), RAdd(tri.b.z, pos.z)),
        Vec3(RAdd(tri.c.x, pos.x), RAdd(tri.c.y, pos.y), RAdd(tri.c.z, pos.z)),
        tri.mat)

(* The two steps in the other order: moved, then rotated about the origin.  *)
TransformedPosFirst(tri, pos, rot) == TransformedRot(TransformedPos(tri, pos), rot)

(* Tri::transformed (structs.rs:131-133).                                   *)
Transformed(tri, pos, rot) == TransformedPos(TransformedRot(tri, rot), pos)

(* Tri::normal (structs.rs:125-129), component by component as written.    *)
TriNormal(tri) ==
    LET u == VSub(tri.b, tri.a)
        v == VSub(tri.c, tri.a)
    IN  Vec3(RSub(RMul(u.y, v.z), RMul(u.z, v.y)),
             RSub(RMul(u.z, v.x), RMul(u.z, v.z)),
             RSub(RMul(u.z, v.y), RMul(u.y, v.x)))

EPSILON_INV == 10000000

(* a * EPSILON_INV < b for an integer a and a natural b, by division.       *)
LtTimesEps(a, b) == b > 0 /\ a <= (b - 1) \div EPSILON_INV

(* a * EPSILON_INV^2 < b for naturals a, b, without forming EPSILON_INV^2.  *)
LtTimesEps2(a, b) == b > 0 /\ a <= ((b - 1) \div EPSILON_INV) \div EPSILON_INV

(* `det > -epsilon && det < epsilon` (structs.rs:141) for the code's        *)
(* det = x / sqrt(norm2): on x itself when norm2 = 1, else on the squares.  *)
AbsLtEpsilon(x, norm2) ==
    IF norm2 = R(1) THEN LtTimesEps(Abs(x.n), x.d)
    ELSE LtTimesEps2(x.n * x.n * norm2.d, norm2.n * x.d * x.d)

(* A distance test that lets every distance pass.                           *)
ScaledLtNever(t, norm2) == FALSE

(* `ray_t < epsilon` (structs.rs:150) for the code's                        *)
(* ray_t = t * sqrt(norm2).                                                 *)
ScaledLtEpsilon(t, norm2) ==
    IF norm2 = R(1) THEN LtTimesEps(t.n, t.d)
    ELSE t.n < 0 \/ LtTimesEps2(t.n * t.n * norm2.n, t.d * t.d * norm2.d)

(* Tri::ray_hit (structs.rs:135-152).  ray_dir_edge2 and det are the code's *)
(* values times sqrt(norm2), ray_t is the code's value divided by it; u, v  *)
(* and the hit point do not depend on the length of the direction.          *)
TriRayHit(tri, r) ==
    LET edge1 == VSub(tri.b, tri.a)
        edge2 == VSub(tri.c, tri.a)
        ray_dir_edge2 == Cross(r.direction, edge2)
        det == Dot(edge1, ray_dir_edge2)
    IN  IF AbsLtEpsilon(det, r.norm2) THEN None
        ELSE
        LET orig_minus_a == VSub(r.origin, tri.a)
            barymetric_u == RDiv(Dot(ray_dir_edge2, orig_minus_a), det)
        IN  IF RLt(barymetric_u, R(0)) \/ RLt(R(1), barymetric_u) THEN None
            ELSE
            LET cross_oma_a == Cross(orig_minus_a, edge1)
                barymetric_v == RDiv(Dot(r.direction, cross_oma_a), det)
            IN  IF RLt(barymetric_v, R(0)) \/ RLt(R(1), RAdd(barymetric_v, barymetric_u))
                THEN None
                ELSE
                LET ray_t == RDiv(Dot(edge2, cross_oma_a), det)
                IN  IF ScaledLtEpsilon(ray_t, r.norm2) THEN None
                    ELSE Some(VAdd(r.origin, VMul(r.direction, ray_t)))

-----------------------------------------------------------------------------
(* Scene objects (structs.rs:155-338).  An object is a record with a kind;  *)
(* the fields a kind does not have hold a fixed default value.              *)

Mesh(id, anchor, rot, tri_list) ==
    [kind |-> "Mesh", id |-> id, pos |-> anchor, rot |-> rot,
     tri_list |-> tri_list, color |-> Color(0, 0, 0)]

LightSource(id, pos, color) ==
    [kind |-> "LightSource", id |-> id, pos |-> pos, rot |-> Rot3New,
     tri_list |-> <<>>, color |-> color]

CameraObject(id, pos) ==
    [kind |-> "Camera", id |-> id, pos |-> pos, rot |-> Rot3New,
     tri_list |-> <<>>, color |-> Color(0, 0, 0)]

Camera(pos, rot, fov) == [pos |-> pos, rot |-> rot, fov |-> fov]

BIAS_INV == 100

(* val > 0.01, on the squared distance.                                     *)
GtBias(val2) == RLt(Rat(1, BIAS_INV * BIAS_INV), val2)

(* The body of the loop of Mesh::ray_hit for the transformed triangle tr    *)
(* and dist = tr.ray_hit(ray) (structs.rs:192-198).  The accumulator is     *)
(* [min, final_val, final_tri]; min = None stands for f64::MAX, which every *)
(* distance of the model is below.                                          *)
MeshKeep(acc, r, tr, dist) ==
    IF IsSome(dist) /\ GtBias(Dist2(r.origin, Unwrap(dist)))
       /\ (acc.min = None \/ RLt(Dist2(r.origin, Unwrap(dist)), Unwrap(acc.min)))
    THEN [min |-> Some(Dist2(r.origin, Unwrap(dist))), final_val |-> Some(Unwrap(dist)),
          final_tri |-> Some(tr)]
    ELSE acc

(* One iteration of the loop of Mesh::ray_hit (structs.rs:189-199).         *)
MeshVisit(acc, r, tr) == MeshKeep(acc, r, tr, TriRayHit(tr, r))

(* The loop of Mesh::ray_hit (structs.rs:186-199) from triangle i on.       *)
RECURSIVE MeshLoop(_, _, _, _)
MeshLoop(mesh, r, i, acc) ==
    IF i > Len(mesh.tri_list) THEN acc
    ELSE MeshLoop(mesh, r, i + 1,
                  MeshVisit(acc, r, Transformed(mesh.tri_list[i], mesh.pos, mesh.rot)))

(* The end of Mesh::ray_hit (structs.rs:200-204).                           *)
MeshResult(acc) ==
    IF IsSome(acc.final_tri)
    THEN IF acc.min = None THEN None
         ELSE Some(<<Unwrap(acc.final_val), Unwrap(acc.final_tri).mat,
                     TriNormal(Unwrap(acc.final_tri))>>)
    ELSE None

(* Mesh::ray_hit (structs.rs:185-205).                                      *)
MeshRayHit(mesh, r) ==
    MeshResult(MeshLoop(mesh, r, 1,
                        [min |-> None, final_val |-> None, final_tri |-> None]))

(* A light source that reports an intersection at its own position.        *)
LightSourceRayHitAtPos(light, r) ==
    Some(<<light.pos, Material(light.color), V(0, 0, 1)>>)

(* LightSource::ray_hit (structs.rs:307).                                   *)
LightSourceRayHit(light, r) == None

(* Camera::ray_hit (structs.rs:334).                                        *)
CameraRayHit(cam, r) == None

(* The dynamic dispatch of object.ray_hit.                                  *)
ObjectRayHit(object, r) ==
    CASE object.kind = "Mesh" -> MeshRayHit(object, r)
      [] object.kind = "LightSource" -> LightSourceRayHit(object, r)
      [] object.kind = "Camera" -> CameraRayHit(object, r)

-----------------------------------------------------------------------------
(* Scene (structs.rs:340-583).                                              *)

(* A selection that takes every object for a light source.                  *)
EveryObject(objs) == objs

(* Scene::get_all_light_sources_immut (structs.rs:473-481).                 *)
GetAllLightSources(objs) == SelectSeq(objs, LAMBDA o : o.kind = "LightSource")

(* A loop body that keeps the last intersection found.                      *)
TraceKeepLast(cam, closest_intersect, intersect_opt) ==
    IF IsSome(intersect_opt) THEN intersect_opt ELSE closest_intersect

(* The body of the loop of Scene::trace for intersect_opt =                 *)
(* object.ray_hit(ray) (structs.rs:498-506).                                *)
TraceKeep(cam, closest_intersect, intersect_opt) ==
    IF IsSome(intersect_opt)
    THEN IF closest_intersect = None THEN intersect_opt
         ELSE IF RLt(Dist2(cam.pos, Unwrap(intersect_opt)[1]),
                     Dist2(cam.pos, Unwrap(closest_intersect)[1]))
              THEN intersect_opt
              ELSE closest_intersect
    ELSE closest_intersect

(* The loop of Scene::trace (structs.rs:496-507) from object i on.          *)
RECURSIVE TraceLoop(_, _, _, _, _)
TraceLoop(objs, cam, r, i, closest_intersect) ==
    IF i > Len(objs) THEN closest_intersect
    ELSE TraceLoop(objs, cam, r, i + 1,
                   TraceKeep(cam, closest_intersect, ObjectRayHit(objs[i], r)))

(* Scene::trace (structs.rs:494-509).                                       *)
Trace(objs, cam, r) == TraceLoop(objs, cam, r, 1, None)

-----------------------------------------------------------------------------
(* The colour arithmetic of Scene::cast_ray (structs.rs:538-573).  A value  *)
(* is [k, v]: k = "fin" with the rational v, or "inf" (+infinity) or "nan". *)

Fin(v) == [k |-> "fin", v |-> v]

Inf == [k |-> "inf", v |-> R(0)]

NaN == [k |-> "nan", v |-> R(0)]

SHADOW_NUM == 22

SHADOW_DEN == 100

(* coefficient / (dist * dist): +infinity when the distance is 0.           *)
Luminosity(coefficient, d2) ==
    IF d2.n = 0 THEN Inf ELSE Fin(RDiv(coefficient, d2))

(* channel as f64 * luminosity, channel an u8.                              *)
FMul(channel, lum) ==
    CASE lum.k = "fin" -> Fin(RMul(R(channel), lum.v))
      [] lum.k = "inf" -> IF channel = 0 THEN NaN ELSE Inf

FAdd(a, b) ==
    CASE a.k = "nan" \/ b.k = "nan" -> NaN
      [] a.k = "inf" \/ b.k = "inf" -> Inf
      [] OTHER -> Fin(RAdd(a.v, b.v))

(* capped_f64 (structs.rs:398-402): NaN passes both comparisons.            *)
CappedF64(v, floor, max) ==
    CASE v.k = "nan" -> v
      [] v.k = "inf" -> Fin(max)
      [] OTHER -> IF RLt(v.v, floor) THEN Fin(floor)
                  ELSE IF RLt(max, v.v) THEN Fin(max)
                  ELSE v

(* `as u8` of a value capped_f64 returned: truncation, NaN gives 0.         *)
AsU8(v) == IF v.k = "nan" THEN 0 ELSE v.v.n \div v.v.d

(* The blend of structs.rs:539-543, 546-550 and 563-567.                    *)
Blend(light_color, other_color, luminosity) ==
    LET ch(l, o) == AsU8(CappedF64(FAdd(FMul(l, luminosity), FMul(o, luminosity)),
                                   R(0), R(255)))
    IN  Color(ch(light_color.r, other_color.r),
              ch(light_color.g, other_color.g),
              ch(light_color.b, other_color.b))

(* The blend of structs.rs:570-574: the light is added to mix_color.        *)
BlendOnto(light_color, mix, luminosity) ==
    LET ch(l, m) == AsU8(CappedF64(FAdd(FMul(l, luminosity), Fin(R(m))),
                                   R(0), R(255)))
    IN  Color(ch(light_color.r, mix.r),
              ch(light_color.g, mix.g),
              ch(light_color.b, mix.b))

(* The shadow ray of a light (structs.rs:535 and 559).                      *)
ShadowRay(h, ls) == RayFromTo(h[1], ls.pos)

(* An iteration that adds an unoccluded light to the colour so far.         *)
PrimaryLightStepAdded(h, ls, shadow_hit, mix) ==
    IF IsSome(shadow_hit)
    THEN Blend(ls.color, h[2].color,
               Luminosity(Rat(SHADOW_NUM, SHADOW_DEN), Dist2(h[1], ls.pos)))
    ELSE BlendOnto(ls.color, mix, Luminosity(R(1), Dist2(h[1], ls.pos)))

(* One iteration of the primary light loop for shadow_hit =                 *)
(* trace(shadow_ray) (structs.rs:537-551).                                  *)
PrimaryLightStep(h, ls, shadow_hit, mix) ==
    IF IsSome(shadow_hit)
    THEN Blend(ls.color, h[2].color,
               Luminosity(Rat(SHADOW_NUM, SHADOW_DEN), Dist2(h[1], ls.pos)))
    ELSE Blend(ls.color, h[2].color, Luminosity(R(1), Dist2(h[1], ls.pos)))

(* An iteration that blends with the reflected material in both cases.      *)
ReflectLightStepAlone(h, rh, ls, shadow_hit, mix) ==
    IF IsSome(shadow_hit)
    THEN Blend(ls.color, rh[2].color,
               Luminosity(Rat(SHADOW_NUM, SHADOW_DEN), Dist2(h[1], ls.pos)))
    ELSE Blend(ls.color, rh[2].color, Luminosity(R(1), Dist2(h[1], ls.pos)))

(* One iteration of the reflection light loop for shadow_hit =              *)
(* trace(shadow_ray) (structs.rs:561-575).                                  *)
ReflectLightStep(h, rh, ls, shadow_hit, mix) ==
    IF IsSome(shadow_hit)
    THEN Blend(ls.color, rh[2].color,
               Luminosity(Rat(SHADOW_NUM, SHADOW_DEN), Dist2(h[1], ls.pos)))
    ELSE BlendOnto(ls.color, mix, Luminosity(R(1), Dist2(h[1], ls.pos)))

(* The primary ray of cast_ray (structs.rs:512-522).  Its direction is a    *)
(* normalised vector turned by the camera rotation, computed with tan, sin  *)
(* and cos in f32 and f64; the model takes the vector before normalisation  *)
(* as an input d.  The origin is the camera position.                       *)
PrimaryRay(cam, d) == Normalized(cam.pos, d)

Black == Color(0, 0, 0)

NoRay == Ray(V(0, 0, 0), V(0, 0, 0))

-----------------------------------------------------------------------------
(* Scene::default_scene (structs.rs:345-449).                               *)

WhiteDifuse == Material(Color(255, 255, 255))

Funky == Material(Color(255, 10, 255))

LightTag == "fuckin' light"

CubeTag == "fuckin' cube"

(* create_cube (structs.rs:345-378).                                        *)
CreateCube(id, center, rot) ==
    Mesh(id, center, rot,
         << Tri(V(-1, -1, -1), V(-1, -1, 1), V(-1, 1, 1), Funky),
            Tri(V(1, 1, -1), V(-1, -1, -1), V(-1, 1, -1), WhiteDifuse),
            Tri(V(1, -1, 1), V(-1, -1, -1), V(1, -1, -1), WhiteDifuse),
            Tri(V(1, 1, -1), V(-1, -1, -1), V(1, -1, -1), Funky),
            Tri(V(-1, -1, -1), V(-1, 1, 1), V(-1, 1, -1), Funky),
            Tri(V(1, -1, 1), V(-1, -1, 1), V(-1, -1, -1), WhiteDifuse),
            Tri(V(-1, 1, 1), V(-1, -1, 1), V(1, -1, 1), Funky),
            Tri(V(1, 1, 1), V(-1, 1, 1), V(1, -1, 1), WhiteDifuse),
            Tri(V(1, 1, 1), V(1, -1, -1), V(1, 1, -1), Funky),
            Tri(V(1, -1, -1), V(1, 1, 1), V(1, -1, 1), WhiteDifuse),
            Tri(V(1, 1, 1), V(1, 1, -1), V(-1, 1, -1), Funky),
            Tri(V(1, 1, 1), V(-1, 1, -1), V(-1, 1, 1), WhiteDifuse) >>)

(* create_big_plane (structs.rs:380-392).                                   *)
CreateBigPlane(id, center, rot) ==
    Mesh(id, center, rot,
         << Tri(V(4, 4, 0), V(-4, 4, 0), V(4, -4, 0), WhiteDifuse),
            Tri(V(-4, 4, 0), V(-4, -4, 0), V(4, -4, 0), WhiteDifuse) >>)

White == Color(255, 255, 255)

(* The camera of default_scene (structs.rs:414-418): yaw -3.0, roll 1.5.    *)
DefaultCamera ==
    Camera(V(3, 3, 3), Rot3(Angle(0, -300), Angle(0, 0), Angle(0, 150)), 40)

DefaultLight == LightSource(LightTag, V(-1, -1, 2), White)

DefaultCube ==
    CreateCube(CubeTag, Vec3(R(0), R(0), Rat(3, 2)),
               Rot3(Angle(30, 0), Angle(0, 0), Angle(60, 0)))

DefaultPlane == CreateBigPlane("uuid-plane", V(0, 0, 0), Rot3New)

(* The objects of default_scene (structs.rs:420-439).                       *)
DefaultObjects == << DefaultLight, DefaultCube, DefaultPlane >>

-----------------------------------------------------------------------------
(* ExampleProgram (main.rs).  The viewport is VIEWPORT_WIDTH = 160 by       *)
(* VIEWPORT_HEIGHT = 90 in main.rs:12-13; the model renders a viewport of   *)
(* the same shape with fewer pixels, and bounds the number of updates.      *)

VIEWPORT_WIDTH == 3

VIEWPORT_HEIGHT == 2

MaxTicks == 2

U16_MAX == 65535

Keys == {"RIGHT", "LEFT", "UP", "DOWN", "R", "F", "H", "Y", "U", "T", "G", "J"}

(* The sets of keys an update may find held: none, each key alone, and      *)
(* combinations of opposite keys, of several axes, and all keys.            *)
KeyCombos ==
    {{}} \cup {{k} : k \in Keys}
         \cup {{"H", "Y"}, {"H", "T", "J"}, {"G", "U", "RIGHT"}, {"R", "F"},
               {"UP", "LEFT", "R"}, Keys}

AngleAdd(a, hundredths) == Angle(a.deg, a.h + hundredths)

(* main.rs:36-50: the camera keys.                                          *)
CameraRotEdits(cam, held) ==
    LET yaw1 == IF "RIGHT" \in held THEN AngleAdd(cam.rot.yaw, -1) ELSE cam.rot.yaw
        yaw2 == IF "LEFT" \in held THEN AngleAdd(yaw1, 1) ELSE yaw1
        roll1 == IF "UP" \in held THEN AngleAdd(cam.rot.roll, 1) ELSE cam.rot.roll
        roll2 == IF "DOWN" \in held THEN AngleAdd(roll1, -1) ELSE roll1
    IN  [cam EXCEPT !.rot = Rot3(yaw2, cam.rot.pitch, roll2)]

(* main.rs:52-58: fov is an u16; `fov += 1` at 65535 and `fov -= 1` at 0    *)
(* panic in a build with overflow checks and wrap in one without.  The      *)
(* result is [fov, panicked].                                               *)
FovEdits(fov, held, overflow_checks) ==
    LET r_over == "R" \in held /\ fov + 1 > U16_MAX
        fov1 == IF "R" \in held THEN (fov + 1) % (U16_MAX + 1) ELSE fov
        f_over == "F" \in held /\ fov1 - 1 < 0
        fov2 == IF "F" \in held THEN (fov1 - 1) % (U16_MAX + 1) ELSE fov1
    IN  IF r_over /\ overflow_checks THEN [fov |-> fov, panicked |-> TRUE]
        ELSE IF f_over /\ overflow_checks THEN [fov |-> fov1, panicked |-> TRUE]
        ELSE [fov |-> fov2, panicked |-> FALSE]

LIGHT_STEP == Rat(5, 100)

(* A loop that moves every light source, whatever its id.                   *)
MoveEveryLight(objs, axis, delta) ==
    [i \in 1..Len(objs) |->
        IF objs[i].kind = "LightSource"
        THEN [objs[i] EXCEPT !.pos[axis] = RAdd(@, delta)]
        ELSE objs[i]]

(* One `for light in get_all_light_sources()` loop of main.rs:61-107: the   *)
(* axis of every LightSource whose id is the light tag moves by delta.      *)
MoveLights(objs, axis, delta) ==
    [i \in 1..Len(objs) |->
        IF objs[i].kind = "LightSource" /\ objs[i].id = LightTag
        THEN [objs[i] EXCEPT !.pos[axis] = RAdd(@, delta)]
        ELSE objs[i]]

(* main.rs:61-107: the light keys, in the order of the code.                *)
LightEdits(objs, held) ==
    LET minus == RSub(R(0), LIGHT_STEP)
        o1 == IF "H" \in held THEN MoveLights(objs, "y", minus) ELSE objs
        o2 == IF "Y" \in held THEN MoveLights(o1, "y", LIGHT_STEP) ELSE o1
        o3 == IF "U" \in held THEN MoveLights(o2, "z", minus) ELSE o2
        o4 == IF "T" \in held THEN MoveLights(o3, "z", LIGHT_STEP) ELSE o3
        o5 == IF "G" \in held THEN MoveLights(o4, "x", minus) ELSE o4
        o6 == IF "J" \in held THEN MoveLights(o5, "x", LIGHT_STEP) ELSE o5
    IN  o6

(* main.rs:109-116: every Mesh whose id is the cube tag turns by 0.01.      *)
RotateCubes(objs) ==
    [i \in 1..Len(objs) |->
        IF objs[i].kind = "Mesh" /\ objs[i].id = CubeTag
        THEN [objs[i] EXCEPT !.rot = Rot3(AngleAdd(@.yaw, 1), AngleAdd(@.pitch, 1),
                                          AngleAdd(@.roll, 1))]
        ELSE objs[i]]

(* The scenes an update loop is started on: default_scene, and scenes with  *)
(* further objects, among them a second light source and objects of the     *)
(* other kind that carry a tag.                                             *)
TickScenes ==
    { DefaultObjects,
      << DefaultLight,
         LightSource("uuid-light2", Vec3(Rat(3, 2), Rat(3, 2), R(3)), White),
         DefaultCube, DefaultPlane,
         CreateBigPlane(LightTag, V(0, 0, 1), Rot3New),
         LightSource(CubeTag, V(1, 1, 1), White) >>,
      << DefaultPlane, DefaultCube,
         CreateCube("uuid-cube2", V(2, 0, 0), Rot3New), DefaultLight, DefaultLight >> }

Init ==
    /\ objects \in TickScenes
    /\ camera = DefaultCamera
    /\ render_index = 0
    /\ complete = FALSE
    /\ pc = "idle"
    /\ iter = 0
    /\ drawn = <<>>
    /\ casts = <<>>
    /\ seen = <<>>
    /\ keys = {}
    /\ pre = [objects |-> objects, camera |-> camera]
    /\ ticks = 0
    /\ ray = NoRay
    /\ ret = None
    /\ hit = None
    /\ reflect_hit = None
    /\ mix_color = Black
    /\ li = 0
    /\ primary_color = Black

castVars == <<ray, ret, hit, reflect_hit, mix_color, li, primary_color>>

(* on_user_update is entered (main.rs:22-25), for at most max_ticks updates. *)
UpdateBegins(max_ticks) ==
    /\ pc = "idle"
    /\ ticks < max_ticks
    /\ pre' = [objects |-> objects, camera |-> camera]
    /\ drawn' = <<>>
    /\ casts' = <<>>
    /\ seen' = <<>>
    /\ iter' = 0
    /\ pc' = IF complete # TRUE THEN "render" ELSE "edits"
    /\ UNCHANGED <<objects, camera, render_index, complete, keys, ticks, castVars>>

BeginUpdate == UpdateBegins(MaxTicks)

(* An iteration whose cast_ray turns the tagged meshes as it runs.           *)
RenderPixelTurning ==
    /\ pc = "render"
    /\ iter < VIEWPORT_WIDTH * VIEWPORT_HEIGHT
    /\ casts' = Append(casts, render_index)
    /\ seen' = Append(seen, [objects |-> objects, camera |-> camera])
    /\ drawn' = Append(drawn, <<render_index % VIEWPORT_WIDTH,
                                render_index \div VIEWPORT_WIDTH>>)
    /\ render_index' = render_index + 1
    /\ iter' = iter + 1
    /\ objects' = RotateCubes(objects)
    /\ UNCHANGED <<camera, complete, pc, keys, pre, ticks, castVars>>

(* One iteration of the render loop (main.rs:26-31): cast_ray for           *)
(* render_index, olc::draw at its cell, render_index += 1.  cast_ray takes  *)
(* &mut self but assigns nothing of the scene; the colour it returns needs  *)
(* the trigonometry of the camera rotation and is not part of the state.    *)
RenderPixel ==
    /\ pc = "render"
    /\ iter < VIEWPORT_WIDTH * VIEWPORT_HEIGHT
    /\ casts' = Append(casts, render_index)
    /\ seen' = Append(seen, [objects |-> objects, camera |-> camera])
    /\ drawn' = Append(drawn, <<render_index % VIEWPORT_WIDTH,
                                render_index \div VIEWPORT_WIDTH>>)
    /\ render_index' = render_index + 1
    /\ iter' = iter + 1
    /\ UNCHANGED <<objects, camera, complete, pc, keys, pre, ticks, castVars>>

(* An end of the render loop that leaves render_index where it is.          *)
EndRenderKeepIndex ==
    /\ pc = "render"
    /\ iter = VIEWPORT_WIDTH * VIEWPORT_HEIGHT
    /\ pc' = "edits"
    /\ UNCHANGED <<objects, camera, render_index, complete, iter, drawn, casts, seen, keys,
                   pre, ticks, castVars>>

(* The render loop is over (main.rs:32-34).                                 *)
EndRender ==
    /\ pc = "render"
    /\ iter = VIEWPORT_WIDTH * VIEWPORT_HEIGHT
    /\ render_index' = 0
    /\ pc' = "edits"
    /\ UNCHANGED <<objects, camera, complete, iter, drawn, casts, seen, keys, pre, ticks,
                   castVars>>

(* The key handling and the rotation of the cube (main.rs:36-122), with the *)
(* set of held keys one of combos.                                          *)
EditsApplied(combos) ==
    /\ pc = "edits"
    /\ \E held \in combos, overflow_checks \in BOOLEAN :
          LET cam1 == CameraRotEdits(camera, held)
              f == FovEdits(cam1.fov, held, overflow_checks)
          IN  /\ keys' = held
              /\ camera' = [cam1 EXCEPT !.fov = f.fov]
              /\ IF f.panicked
                 THEN /\ objects' = objects
                      /\ pc' = "panicked"
                      /\ ticks' = ticks
                 ELSE /\ objects' = RotateCubes(LightEdits(objects, held))
                      /\ pc' = "idle"
                      /\ ticks' = ticks + 1
    /\ UNCHANGED <<render_index, complete, iter, drawn, casts, seen, pre, castVars>>

ApplyEdits == EditsApplied(KeyCombos)

Next == BeginUpdate \/ RenderPixel \/ EndRender \/ ApplyEdits

Spec == Init /\ [][Next]_vars

-----------------------------------------------------------------------------
(* The update loop on default_scene with the field-of-view keys only, for   *)
(* enough updates to take fov from 40 to both ends of u16.                  *)

MaxFovTicks == 42

FovKeyCombos == SUBSET {"R", "F"}

InitFov ==
    /\ objects = DefaultObjects
    /\ camera = DefaultCamera
    /\ render_index = 0
    /\ complete = FALSE
    /\ pc = "idle"
    /\ iter = 0
    /\ drawn = <<>>
    /\ casts = <<>>
    /\ seen = <<>>
    /\ keys = {}
    /\ pre = [objects |-> objects, camera |-> camera]
    /\ ticks = 0
    /\ ray = NoRay
    /\ ret = None
    /\ hit = None
    /\ reflect_hit = None
    /\ mix_color = Black
    /\ li = 0
    /\ primary_color = Black

FovBeginUpdate == UpdateBegins(MaxFovTicks)

FovApplyEdits == EditsApplied(FovKeyCombos)

NextFov == FovBeginUpdate \/ RenderPixel \/ EndRender \/ FovApplyEdits

SpecFov == InitFov /\ [][NextFov]_vars

-----------------------------------------------------------------------------
(* Scene::trace and Scene::cast_ray, run on scenes of quarter-turn meshes.  *)

MaxObjects == 4

Wall ==
    Mesh("uuid-wall", V(-1, -1, 2), Rot3(Angle(90, 0), Angle(0, 0), Angle(0, 0)),
         << Tri(V(-1, -1, 0), V(2, -1, 0), V(-1, 2, 0), Material(Color(10, 200, 30))) >>)

Floor == CreateBigPlane("uuid-floor", V(0, 0, 0), Rot3New)

LightA == LightSource("uuid-light-a", V(-1, -1, 3), White)

LightB == LightSource("uuid-light-b", V(-1, -2, 0), Color(200, 100, 0))

Catalogue == {Floor, Wall, LightA, LightB, CameraObject("uuid-camera", V(-1, -1, 1))}

(* Every sequence of at most MaxObjects distinct objects of the catalogue.  *)
RECURSIVE SeqsOver(_, _)
SeqsOver(S, n) ==
    IF n = 0 THEN {<<>>}
    ELSE LET shorter == SeqsOver(S, n - 1)
         IN  shorter \cup {Append(q, o) : q \in shorter, o \in S}

CastScenes ==
    {q \in SeqsOver(Catalogue, MaxObjects) :
        \A i, j \in 1..Len(q) : i # j => q[i] # q[j]}

CastCameras ==
    {Camera(V(3, 3, 3), Rot3New, 40), Camera(V(-1, -1, 5), Rot3New, 40)}

(* Directions of primary rays, before normalisation.                        *)
PrimaryDirs == {V(-4, -4, -3), V(0, 0, -1), V(-4, -4, -2), V(0, 0, 1)}

(* Rays of direct calls of trace.                                           *)
TraceRays ==
    {Ray(V(-1, -1, -1), V(0, 0, 1)), RayFromTo(V(-1, -1, 4), V(-1, -1, 0)),
     Ray(Vec3(R(-1), R(-1), Rat(401, 200)), V(0, 0, -1))}

InitCast ==
    /\ objects \in CastScenes
    /\ camera \in CastCameras
    /\ render_index = 0
    /\ complete = FALSE
    /\ pc = "start"
    /\ iter = 0
    /\ drawn = <<>>
    /\ casts = <<>>
    /\ seen = <<>>
    /\ keys = {}
    /\ pre = [objects |-> objects, camera |-> camera]
    /\ ticks = 0
    /\ ray = NoRay
    /\ ret = None
    /\ hit = None
    /\ reflect_hit = None
    /\ mix_color = Black
    /\ li = 0
    /\ primary_color = Black

tickVars == <<render_index, complete, iter, drawn, casts, seen, keys, pre, ticks>>

(* A direct call of Scene::trace.                                           *)
TraceCall ==
    /\ pc = "start"
    /\ \E r \in TraceRays :
          /\ ray' = r
          /\ ret' = Trace(objects, camera, r)
    /\ pc' = "traced"
    /\ UNCHANGED <<objects, camera, tickVars, hit, reflect_hit, mix_color, li,
                   primary_color>>

(* cast_ray up to the primary light loop (structs.rs:512-531).              *)
CastRayBegin ==
    /\ pc = "start"
    /\ \E d \in PrimaryDirs :
          \E h \in {Trace(objects, camera, PrimaryRay(camera, d))} :
              /\ ray' = PrimaryRay(camera, d)
              /\ ret' = h
              /\ hit' = h
              /\ pc' = IF IsSome(h) THEN "primary_loop" ELSE "cast_done"
    /\ mix_color' = Black
    /\ li' = 1
    /\ UNCHANGED <<objects, camera, tickVars, reflect_hit, primary_color>>

(* One light of the primary light loop (structs.rs:534-552).                *)
PrimaryLight ==
    /\ pc = "primary_loop"
    /\ li <= Len(GetAllLightSources(objects))
    /\ \E ls \in {GetAllLightSources(objects)[li]} :
          \E shadow_hit \in {Trace(objects, camera, ShadowRay(Unwrap(hit), ls))} :
              /\ ray' = ShadowRay(Unwrap(hit), ls)
              /\ ret' = shadow_hit
              /\ mix_color' = PrimaryLightStep(Unwrap(hit), ls, shadow_hit, mix_color)
    /\ li' = li + 1
    /\ UNCHANGED <<objects, camera, tickVars, pc, hit, reflect_hit, primary_color>>

(* The reflection ray (structs.rs:555).                                     *)
ReflectRay(h) == Ray(h[1], h[3])

(* The reflection ray is traced (structs.rs:555-557).                       *)
ReflectBegin ==
    /\ pc = "primary_loop"
    /\ li > Len(GetAllLightSources(objects))
    /\ \E rh \in {Trace(objects, camera, ReflectRay(Unwrap(hit)))} :
          /\ ray' = ReflectRay(Unwrap(hit))
          /\ ret' = rh
          /\ reflect_hit' = rh
          /\ pc' = IF IsSome(rh) THEN "reflect_loop" ELSE "cast_done"
    /\ primary_color' = mix_color
    /\ li' = 1
    /\ UNCHANGED <<objects, camera, tickVars, hit, mix_color>>

(* One light of the reflection light loop (structs.rs:558-576).             *)
ReflectLight ==
    /\ pc = "reflect_loop"
    /\ li <= Len(GetAllLightSources(objects))
    /\ \E ls \in {GetAllLightSources(objects)[li]} :
          \E shadow_hit \in {Trace(objects, camera, ShadowRay(Unwrap(hit), ls))} :
              /\ ray' = ShadowRay(Unwrap(hit), ls)
              /\ ret' = shadow_hit
              /\ mix_color' = ReflectLightStep(Unwrap(hit), Unwrap(reflect_hit), ls,
                                               shadow_hit, mix_color)
    /\ li' = li + 1
    /\ UNCHANGED <<objects, camera, tickVars, pc, hit, reflect_hit, primary_color>>

(* cast_ray returns mix_color (structs.rs:577-582).                         *)
CastRayReturn ==
    /\ pc = "reflect_loop"
    /\ li > Len(GetAllLightSources(objects))
    /\ pc' = "cast_done"
    /\ UNCHANGED <<objects, camera, tickVars, ray, ret, hit, reflect_hit, mix_color,
                   li, primary_color>>

NextCast ==
    TraceCall \/ CastRayBegin \/ PrimaryLight \/ ReflectBegin \/ ReflectLight
        \/ CastRayReturn

SpecCast == InitCast /\ [][NextCast]_vars

-----------------------------------------------------------------------------
(* Tri::ray_hit, called on triangles and rays of a small set.               *)

TriPoints == {V(-1, 0, 0), V(0, 1, 0), V(1, 0, 0), V(0, 0, 1), V(0, 0, 0)}

TriMeshes ==
    {Mesh("uuid-tri", V(0, 0, 0), Rot3New, << Tri(t[1], t[2], t[3], WhiteDifuse) >>) :
        t \in {u \in TriPoints \X TriPoints \X TriPoints :
                  u[1] # u[2] /\ u[1] # u[3] /\ u[2] # u[3]}}

TriOrigins ==
    {Vec3(R(0), Rat(33, 100), R(1)), Vec3(R(0), Rat(1, 3), R(-1)),
     Vec3(Rat(1, 4), Rat(1, 4), R(0)), V(2, 2, 2)}

TriDirections ==
    {V(0, 0, -1), V(0, 0, 1), V(1, 0, 0), V(0, 1, 0), V(-1, -1, -1), V(-7, -6, -8)}

(* Directions so short that the determinant falls to epsilon and below, and *)
(* so long that the distance does.                                          *)
TriExtremeDirections ==
    {Vec3(R(0), R(0), Rat(-1, 20000000)), Vec3(R(0), R(0), Rat(-1, 5000000)),
     V(0, 0, -20000000), V(0, 0, -5000000)}

TriExtremeOrigins == {V(0, 0, 2), V(0, 0, 1), Vec3(Rat(1, 4), Rat(1, 4), R(1))}

TriRays ==
    {Ray(o, d) : o \in TriOrigins, d \in TriDirections}
        \cup {RayFromTo(o, V(0, 0, 0)) : o \in TriOrigins}
        \cup {Ray(o, d) : o \in TriExtremeOrigins, d \in TriExtremeDirections}

InitTri ==
    /\ objects \in {<<m>> : m \in TriMeshes}
    /\ camera = DefaultCamera
    /\ render_index = 0
    /\ complete = FALSE
    /\ pc = "tri_start"
    /\ iter = 0
    /\ drawn = <<>>
    /\ casts = <<>>
    /\ seen = <<>>
    /\ keys = {}
    /\ pre = [objects |-> objects, camera |-> camera]
    /\ ticks = 0
    /\ ray = NoRay
    /\ ret = None
    /\ hit = None
    /\ reflect_hit = None
    /\ mix_color = Black
    /\ li = 0
    /\ primary_color = Black

(* A call of Tri::ray_hit on the triangle, as it is stored.                 *)
TriRayHitCall ==
    /\ pc = "tri_start"
    /\ \E r \in TriRays :
          /\ ray' = r
          /\ ret' = TriRayHit(objects[1].tri_list[1], r)
    /\ pc' = "tri_done"
    /\ UNCHANGED <<objects, camera, tickVars, hit, reflect_hit, mix_color, li,
                   primary_color>>

NextTri == TriRayHitCall

SpecTri == InitTri /\ [][NextTri]_vars

-----------------------------------------------------------------------------
(* Mesh::ray_hit, called on meshes of at most MaxTris triangles.            *)

MaxTris == 2

TriCatalogue ==
    {Tri(V(-1, -1, 0), V(2, -1, 0), V(-1, 2, 0), Funky),
     Tri(V(-1, -1, 1), V(2, -1, 1), V(-1, 2, 1), WhiteDifuse),
     Tri(V(0, -1, -1), V(0, 2, -1), V(0, -1, 2), Material(Color(10, 200, 30))),
     Tri(V(2, 2, 2), V(-2, 0, 2), V(0, -2, 2), Material(Color(1, 2, 3)))}

MeshAnchors == {V(0, 0, 0), V(0, 0, 1)}

MeshRots ==
    {Rot3New, Rot3(Angle(90, 0), Angle(0, 0), Angle(0, 0)),
     Rot3(Angle(0, 0), Angle(90, 0), Angle(0, 0)),
     Rot3(Angle(180, 0), Angle(0, 0), Angle(270, 0))}

MeshSet ==
    {Mesh("uuid-mesh", anchor, rot, tris) :
        anchor \in MeshAnchors, rot \in MeshRots,
        tris \in {q \in SeqsOver(TriCatalogue, MaxTris) :
                     \A i, j \in 1..Len(q) : i # j => q[i] # q[j]}}

MeshRays ==
    {Ray(V(0, 0, 3), V(0, 0, -1)), Ray(V(0, 0, -3), V(0, 0, 1)),
     Ray(V(3, 0, 0), V(-1, 0, 0)),
     Ray(Vec3(R(0), R(0), Rat(1, 200)), V(0, 0, -1)),
     Ray(Vec3(R(0), R(0), Rat(201, 200)), V(0, 0, -1)),
     Ray(Vec3(R(0), R(0), Rat(51, 50)), V(0, 0, -1)),
     RayFromTo(Vec3(Rat(1, 4), Rat(1, 4), R(3)), V(0, 0, 0))}

InitMesh ==
    /\ objects \in {<<m>> : m \in MeshSet}
    /\ camera = DefaultCamera
    /\ render_index = 0
    /\ complete = FALSE
    /\ pc = "mesh_start"
    /\ iter = 0
    /\ drawn = <<>>
    /\ casts = <<>>
    /\ seen = <<>>
    /\ keys = {}
    /\ pre = [objects |-> objects, camera |-> camera]
    /\ ticks = 0
    /\ ray = NoRay
    /\ ret = None
    /\ hit = None
    /\ reflect_hit = None
    /\ mix_color = Black
    /\ li = 0
    /\ primary_color = Black

(* A call of Mesh::ray_hit.                                                 *)
MeshRayHitCall ==
    /\ pc = "mesh_start"
    /\ \E r \in MeshRays :
          /\ ray' = r
          /\ ret' = MeshRayHit(objects[1], r)
    /\ pc' = "mesh_done"
    /\ UNCHANGED <<objects, camera, tickVars, hit, reflect_hit, mix_color, li,
                   primary_color>>

NextMesh == MeshRayHitCall

SpecMesh == InitMesh /\ [][NextMesh]_vars

-----------------------------------------------------------------------------
(* Properties of Tri::ray_hit (SpecTri).                                    *)

(* The determinant of the matrix with columns p, q, r.                      *)
Det3(p, q, r) ==
    RAdd(RSub(RMul(p.x, RSub(RMul(q.y, r.z), RMul(q.z, r.y))),
              RMul(q.x, RSub(RMul(p.y, r.z), RMul(p.z, r.y)))),
         RMul(r.x, RSub(RMul(p.y, q.z), RMul(p.z, q.y))))

VNeg(u) == Vec3(RNeg(u.x), RNeg(u.y), RNeg(u.z))

(* ceil(x) for a rational x > 0.                                            *)
Ceil(x) == (x.n + x.d - 1) \div x.d

(* x >= 1e-7 for a rational x: x > 0 and ceil(1/x) <= 10^7.                 *)
GeEps(x) == x.n > 0 /\ (x.d + x.n - 1) \div x.n <= EPSILON_INV

(* x >= 1e-14 for a rational x.                                             *)
GeEpsSquared(x) ==
    x.n > 0 /\ ((x.d + x.n - 1) \div x.n + EPSILON_INV - 1) \div EPSILON_INV
                   <= EPSILON_INV

(* |x| / sqrt(norm2) >= 1e-7.                                               *)
AbsGeEpsOver(x, norm2) ==
    IF norm2 = R(1) THEN GeEps([n |-> Abs(x.n), d |-> x.d])
    ELSE GeEpsSquared(RDiv(RMul(x, x), norm2))

(* x * sqrt(norm2) >= 1e-7.                                                 *)
GeEpsTimes(x, norm2) ==
    IF norm2 = R(1) THEN GeEps(x)
    ELSE x.n > 0 /\ GeEpsSquared(RMul(RMul(x, x), norm2))

(* The solution <<t, u, v>> of  origin + t*direction = a + u*(b-a) + v*(c-a) *)
(* by Cramer's rule, for a determinant d # 0.                               *)
Barycentric(tri, r, d) ==
    LET e1 == VSub(tri.b, tri.a)
        e2 == VSub(tri.c, tri.a)
        s == VSub(r.origin, tri.a)
        nd == VNeg(r.direction)
    IN  << RDiv(Det3(s, e1, e2), d), RDiv(Det3(nd, s, e2), d),
           RDiv(Det3(nd, e1, s), d) >>

TriDet(tri, r) ==
    Det3(VNeg(r.direction), VSub(tri.b, tri.a), VSub(tri.c, tri.a))

(* The conditions of a hit on <<t, u, v>> and the determinant d.            *)
HitConditions(tuv, d, norm2) ==
    /\ AbsGeEpsOver(d, norm2)
    /\ RLe(R(0), tuv[2]) /\ RLe(tuv[2], R(1))
    /\ RLe(R(0), tuv[3])
    /\ RLe(RAdd(tuv[2], tuv[3]), R(1))
    /\ GeEpsTimes(tuv[1], norm2)

InPlane(p, tri) ==
    Det3(VSub(p, tri.a), VSub(tri.b, tri.a), VSub(tri.c, tri.a)) = R(0)

(* C7: Tri::ray_hit returns a point iff |det| >= 1e-7, 0 <= u <= 1, v >= 0,  *)
(* u + v <= 1 and t >= 1e-7, where det = dot(b-a, direction x (c-a)) and     *)
(* t, u, v solve origin + t*direction = a + u*(b-a) + v*(c-a); the point is  *)
(* origin + direction*t and lies in the plane of the triangle; a ray         *)
(* parallel to the plane (det = 0) gets none.                                *)
C7_RayHitIffConditions ==
    pc = "tri_done" =>
        LET tri == objects[1].tri_list[1]
            d == TriDet(tri, ray)
        IN  IF d = R(0) THEN ret = None
            ELSE LET tuv == Barycentric(tri, ray, d)
                 IN  /\ IsSome(ret) <=> HitConditions(tuv, d, ray.norm2)
                     /\ IsSome(ret) =>
                           /\ Unwrap(ret) = VAdd(ray.origin, VMul(ray.direction, tuv[1]))
                           /\ InPlane(Unwrap(ret), tri)

(* The case of the test tri_hit: the ray from (0, 0.33, 1) down the z axis   *)
(* hits the triangle (-1,0,0), (0,1,0), (1,0,0) at z = 0.                    *)
C7_TestTriHit ==
    /\ pc = "tri_done"
    /\ objects[1].tri_list[1] = Tri(V(-1, 0, 0), V(0, 1, 0), V(1, 0, 0), WhiteDifuse)
    /\ ray = Ray(Vec3(R(0), Rat(33, 100), R(1)), V(0, 0, -1))
    /\ IsSome(ret)
    /\ Unwrap(ret).z = R(0)

-----------------------------------------------------------------------------
(* Properties of Mesh::ray_hit (SpecMesh).                                  *)

(* A vertex of the mesh in world space: rotated, then moved by the anchor.  *)
WorldPoint(mesh, p) == VAdd(Rotate(p, mesh.rot), mesh.pos)

WorldTri(mesh, i) ==
    Tri(WorldPoint(mesh, mesh.tri_list[i].a), WorldPoint(mesh, mesh.tri_list[i].b),
        WorldPoint(mesh, mesh.tri_list[i].c), mesh.tri_list[i].mat)

(* The triangles of the mesh that the ray hits farther than 0.01 from its   *)
(* origin.                                                                  *)
QualifyingTris(mesh, r) ==
    {i \in 1..Len(mesh.tri_list) :
        /\ IsSome(TriRayHit(WorldTri(mesh, i), r))
        /\ RLt(Rat(1, 10000), Dist2(r.origin, Unwrap(TriRayHit(WorldTri(mesh, i), r))))}

HitDist2(mesh, r, i) == Dist2(r.origin, Unwrap(TriRayHit(WorldTri(mesh, i), r)))

(* C8: Mesh::ray_hit returns none iff no triangle, rotated by the mesh       *)
(* rotation and then moved by the anchor, is hit farther than 0.01 from the  *)
(* ray origin; otherwise it returns the hit point of a triangle at the       *)
(* minimum such distance, with the material and the normal of that triangle. *)
C8_MeshNearestBeyondBias ==
    pc = "mesh_done" =>
        LET mesh == objects[1]
            q == QualifyingTris(mesh, ray)
        IN  /\ ret = None <=> q = {}
            /\ q # {} =>
                  \E i \in q :
                     /\ \A j \in q : RLe(HitDist2(mesh, ray, i), HitDist2(mesh, ray, j))
                     /\ ret = Some(<< Unwrap(TriRayHit(WorldTri(mesh, i), ray)),
                                      mesh.tri_list[i].mat,
                                      TriNormal(WorldTri(mesh, i)) >>)

(* A rotated and moved mesh of two triangles, both hit beyond the bias, the  *)
(* second of the list nearer than the first: the second is returned.         *)
C8_SecondTriNearer ==
    /\ pc = "mesh_done"
    /\ Len(objects[1].tri_list) = 2
    /\ objects[1].rot # Rot3New
    /\ objects[1].pos # V(0, 0, 0)
    /\ QualifyingTris(objects[1], ray) = {1, 2}
    /\ RLt(HitDist2(objects[1], ray, 2), HitDist2(objects[1], ray, 1))
    /\ IsSome(ret)
    /\ Unwrap(ret)[2] = objects[1].tri_list[2].mat

(* C6: the normal returned with a mesh hit is cross(b-a, c-a) of the hit     *)
(* triangle's world-transformed vertices a, b, c.                            *)
C6_NormalIsCross ==
    (pc = "mesh_done" /\ IsSome(ret)) =>
        \E i \in QualifyingTris(objects[1], ray) :
            /\ Unwrap(ret)[1] = Unwrap(TriRayHit(WorldTri(objects[1], i), ray))
            /\ Unwrap(ret)[2] = objects[1].tri_list[i].mat
            /\ Unwrap(ret)[3] = Cross(VSub(WorldTri(objects[1], i).b, WorldTri(objects[1], i).a),
                                      VSub(WorldTri(objects[1], i).c, WorldTri(objects[1], i).a))

(* The triangle (-1,-1,0), (2,-1,0), (-1,2,0), hit from above: the normal    *)
(* returned is (0, 0, 0), the cross product of its edges is (0, 0, 9).       *)
C6_ZeroNormal ==
    /\ pc = "mesh_done"
    /\ objects[1].tri_list = << Tri(V(-1, -1, 0), V(2, -1, 0), V(-1, 2, 0), Funky) >>
    /\ objects[1].rot = Rot3New
    /\ objects[1].pos = V(0, 0, 0)
    /\ ray = Ray(V(0, 0, 3), V(0, 0, -1))
    /\ IsSome(ret)
    /\ Unwrap(ret)[3] = V(0, 0, 0)
    /\ Cross(VSub(objects[1].tri_list[1].b, objects[1].tri_list[1].a),
             VSub(objects[1].tri_list[1].c, objects[1].tri_list[1].a)) = V(0, 0, 9)

-----------------------------------------------------------------------------
(* Properties of Scene::trace and Scene::cast_ray (SpecCast).  In every     *)
(* state after the first step, ray and ret are the argument and the result  *)
(* of the last call of trace.                                               *)

(* The objects that report an intersection for the ray r.                   *)
Intersecting(objs, r) == {i \in 1..Len(objs) : IsSome(ObjectRayHit(objs[i], r))}

HitPoint(objs, r, i) == Unwrap(ObjectRayHit(objs[i], r))[1]

(* C1: trace returns none iff no object of the collection reports an         *)
(* intersection for the ray; otherwise it returns an object's intersection   *)
(* whose hit point is at the smallest distance from the position of the      *)
(* active camera, whatever the origin of the ray and the order of objects.   *)
C1_TraceClosestToCamera ==
    pc # "start" =>
        LET q == Intersecting(objects, ray)
        IN  /\ ret = None <=> q = {}
            /\ q # {} =>
                  \E i \in q :
                     /\ ret = ObjectRayHit(objects[i], ray)
                     /\ \A j \in q : RLe(Dist2(camera.pos, HitPoint(objects, ray, i)),
                                         Dist2(camera.pos, HitPoint(objects, ray, j)))

(* A ray that does not start at the camera and meets two objects: the hit    *)
(* returned is the one nearer the camera, and another object's hit is        *)
(* nearer the origin of the ray.                                             *)
C1_FartherFromRayOrigin ==
    /\ pc # "start"
    /\ ray.origin # camera.pos
    /\ IsSome(ret)
    /\ \E j \in Intersecting(objects, ray) :
          /\ RLt(Dist2(ray.origin, HitPoint(objects, ray, j)),
                 Dist2(ray.origin, Unwrap(ret)[1]))
          /\ RLt(Dist2(camera.pos, Unwrap(ret)[1]),
                 Dist2(camera.pos, HitPoint(objects, ray, j)))

(* The collection without its light sources and cameras.                     *)
MeshesOnly(objs) == SelectSeq(objs, LAMBDA o : o.kind = "Mesh")

(* The collection with every light source moved to the point p.              *)
LightsMovedTo(objs, p) ==
    [i \in 1..Len(objs) |->
        IF objs[i].kind = "LightSource" THEN [objs[i] EXCEPT !.pos = p] ELSE objs[i]]

(* Points light sources are moved and added to: the point returned, or a    *)
(* point on the ray when there is none, and the origin of the ray.          *)
ProbePoints(r, res) ==
    {r.origin, IF IsSome(res) THEN Unwrap(res)[1] ELSE VAdd(r.origin, r.direction)}

(* C9: light sources and cameras report no intersection for the ray, and     *)
(* the result of trace is the same for the collection without its light      *)
(* sources and cameras, with its light sources moved, and with a light       *)
(* source added.                                                             *)
C9_LightsNeverIntersect ==
    pc # "start" =>
        /\ \A i \in 1..Len(objects) :
              objects[i].kind # "Mesh" => ObjectRayHit(objects[i], ray) = None
        /\ ret = Trace(MeshesOnly(objects), camera, ray)
        /\ \A p \in ProbePoints(ray, ret) :
              /\ ret = Trace(LightsMovedTo(objects, p), camera, ray)
              /\ ret = Trace(Append(objects, LightSource("uuid-added", p, Color(9, 9, 9))),
                             camera, ray)

(* A shadow ray aimed at a light of a scene with two lights and a mesh       *)
(* reaches it unoccluded.                                                    *)
C9_ShadowRayPassesLights ==
    /\ pc = "primary_loop"
    /\ li > 1
    /\ Len(GetAllLightSources(objects)) = 2
    /\ Len(MeshesOnly(objects)) >= 1
    /\ ray = ShadowRay(Unwrap(hit), GetAllLightSources(objects)[li - 1])
    /\ ret = None

(* floor(min(255, x)) for a rational x >= 0.                                *)
ClampFloor(x) == IF x.n >= 255 * x.d THEN 255 ELSE x.n \div x.d

(* Per channel floor(clamp((l + m) * k / d2, 0, 255)): the blend of a light *)
(* of colour lc with the colour mc at squared distance d2 # 0 and           *)
(* coefficient k.                                                           *)
BlendAlone(lc, mc, k, d2) ==
    Color(ClampFloor(RDiv(RMul(R(lc.r + mc.r), k), d2)),
          ClampFloor(RDiv(RMul(R(lc.g + mc.g), k), d2)),
          ClampFloor(RDiv(RMul(R(lc.b + mc.b), k), d2)))

(* Per channel floor(clamp(l / d2 + m, 0, 255)).                            *)
BlendAdded(lc, mc, d2) ==
    Color(ClampFloor(RAdd(RDiv(R(lc.r), d2), R(mc.r))),
          ClampFloor(RAdd(RDiv(R(lc.g), d2), R(mc.g))),
          ClampFloor(RAdd(RDiv(R(lc.b), d2), R(mc.b))))

Lights == SelectSeq(objects, LAMBDA o : o.kind = "LightSource")

(* The shadow ray from the primary hit point to the k-th light hits         *)
(* something.                                                               *)
Occluded(k) ==
    IsSome(Trace(objects, camera, RayFromTo(Unwrap(hit)[1], Lights[k].pos)))

Coefficient(k) == IF Occluded(k) THEN Rat(22, 100) ELSE R(1)

LightDist2(k) == Dist2(Unwrap(hit)[1], Lights[k].pos)

(* The blend of the k-th light alone with the colour mc.                    *)
AloneColor(k, mc) == BlendAlone(Lights[k].color, mc, Coefficient(k), LightDist2(k))

(* C3: in the primary light loop each light overwrites the pixel colour:     *)
(* after the k-th light, for a hit point not at the light, the colour is     *)
(* clamp(Lk.color*lum + hit.material.color*lum, 0, 255) per channel with     *)
(* lum = 0.22/d^2 if the shadow ray to Lk hits anything and 1/d^2 otherwise, *)
(* so after the loop it is the blend of the last light alone.                *)
C3_PrimaryLastLightWins ==
    (pc = "primary_loop" /\ li > 1 /\ LightDist2(li - 1) # R(0)) =>
        mix_color = AloneColor(li - 1, Unwrap(hit)[2].color)

(* The primary loop has run over two lights whose blends differ; the colour  *)
(* is that of the second and is not black.                                   *)
C3_TwoLightsSecondWins ==
    /\ pc = "primary_loop"
    /\ Len(Lights) = 2
    /\ li = 3
    /\ LightDist2(1) # R(0) /\ LightDist2(2) # R(0)
    /\ AloneColor(1, Unwrap(hit)[2].color) # AloneColor(2, Unwrap(hit)[2].color)
    /\ AloneColor(1, Unwrap(hit)[2].color) # Black
    /\ mix_color = AloneColor(2, Unwrap(hit)[2].color)
    /\ mix_color # Black

NoLights == \A i \in 1..Len(objects) : objects[i].kind # "LightSource"

(* C4: cast_ray returns (0,0,0) when the primary ray hits no object, and     *)
(* when the scene has no light source, whether or not the reflection ray     *)
(* hits; a colour other than black needs a primary hit and a light.          *)
C4_BlackWithoutHitOrLight ==
    (pc = "cast_done" /\ (hit = None \/ NoLights)) => mix_color = Black

(* cast_ray returns black for a scene without lights in which both the       *)
(* primary ray and the reflection ray hit.                                   *)
C4_HitWithoutLights ==
    /\ pc = "cast_done"
    /\ IsSome(hit)
    /\ IsSome(reflect_hit)
    /\ NoLights
    /\ mix_color = Black

(* The colour after the k-th light of the reflection loop: an occluded light *)
(* gives its blend with the reflected material alone, an unoccluded light is *)
(* added to the colour before it; before the first light the colour is the   *)
(* one the primary loop left.                                                *)
RECURSIVE ReflectColorAfter(_)
ReflectColorAfter(k) ==
    IF k = 0 THEN primary_color
    ELSE IF Occluded(k)
         THEN BlendAlone(Lights[k].color, Unwrap(reflect_hit)[2].color, Rat(22, 100),
                         LightDist2(k))
         ELSE BlendAdded(Lights[k].color, ReflectColorAfter(k - 1), LightDist2(k))

(* C2: when the reflection ray hits, the second light loop sets the colour,  *)
(* for each light at a distance d # 0 of the primary hit point, to           *)
(* clamp(light.color*0.22/d^2 + reflect_hit.material.color*0.22/d^2, 0, 255) *)
(* if the light is occluded, overwriting the colour, and to                  *)
(* clamp(light.color/d^2 + previous colour, 0, 255) if it is not.            *)
C2_ReflectLoopColour ==
    (pc = "reflect_loop" /\ li > 1 /\ \A k \in 1..(li - 1) : LightDist2(k) # R(0)) =>
        mix_color = ReflectColorAfter(li - 1)

(* C2 as stated: in both cases the colour after a light of the second loop   *)
(* is clamp(light.color*lum + reflect_hit.material.color*lum, 0, 255), and   *)
(* does not depend on the colour of the primary loop.                        *)
C2_ReflectOverwrites ==
    (pc = "reflect_loop" /\ li > 1 /\ LightDist2(li - 1) # R(0)) =>
        mix_color = AloneColor(li - 1, Unwrap(reflect_hit)[2].color)

(* An unoccluded light in the reflection loop: the colour is the light added *)
(* to the colour of the primary loop, and differs from the blend of the      *)
(* light with the reflected material.                                        *)
C2_UnoccludedAddsToPrimary ==
    /\ pc = "reflect_loop"
    /\ li = 2
    /\ ~Occluded(1)
    /\ LightDist2(1) # R(0)
    /\ primary_color # Black
    /\ mix_color = BlendAdded(Lights[1].color, primary_color, LightDist2(1))
    /\ mix_color # AloneColor(1, Unwrap(reflect_hit)[2].color)

-----------------------------------------------------------------------------
(* Properties of on_user_update (Spec).                                     *)

Cells == (0..(VIEWPORT_WIDTH - 1)) \X (0..(VIEWPORT_HEIGHT - 1))

(* The number of positions of the sequence s that hold v.                   *)
Count(s, v) == Cardinality({k \in 1..Len(s) : s[k] = v})

(* C5: in every update the render loop calls cast_ray and draws exactly once *)
(* for each index 0..W*H-1, at the cell (index mod W, index div W), so each  *)
(* of the W*H cells of the frame is written exactly once; render_index is 0  *)
(* when the update returns, and complete is never true, so no update skips   *)
(* the loop.                                                                 *)
C5_FullFrameEveryTick ==
    /\ complete = FALSE
    /\ pc \in {"idle", "edits", "panicked"} => render_index = 0
    /\ (pc \in {"edits", "panicked"} \/ (pc = "idle" /\ ticks > 0)) =>
          /\ Len(casts) = VIEWPORT_WIDTH * VIEWPORT_HEIGHT
          /\ Len(drawn) = Len(casts)
          /\ \A i \in 0..(VIEWPORT_WIDTH * VIEWPORT_HEIGHT - 1) : Count(casts, i) = 1
          /\ \A k \in 1..Len(casts) :
                drawn[k] = <<casts[k] % VIEWPORT_WIDTH, casts[k] \div VIEWPORT_WIDTH>>
          /\ \A c \in Cells : Count(drawn, c) = 1

(* The second update has returned with the whole frame drawn again, the last *)
(* cell last.                                                                *)
C5_SecondFrameDrawn ==
    /\ pc = "idle"
    /\ ticks = 2
    /\ render_index = 0
    /\ Len(drawn) = VIEWPORT_WIDTH * VIEWPORT_HEIGHT
    /\ drawn[1] = <<0, 0>>
    /\ drawn[VIEWPORT_WIDTH + 1] = <<0, 1>>
    /\ drawn[Len(drawn)] = <<VIEWPORT_WIDTH - 1, VIEWPORT_HEIGHT - 1>>

(* 1 if the key is in the set held, else 0.                                  *)
Held(held, key) == IF key \in held THEN 1 ELSE 0

(* The position p moved by 0.05 times the steps dx, dy, dz.                  *)
Shifted(p, dx, dy, dz) ==
    Vec3(RAdd(p.x, Rat(dx, 20)), RAdd(p.y, Rat(dy, 20)), RAdd(p.z, Rat(dz, 20)))

Turned(rot) ==
    Rot3(Angle(rot.yaw.deg, rot.yaw.h + 1), Angle(rot.pitch.deg, rot.pitch.h + 1),
         Angle(rot.roll.deg, rot.roll.h + 1))

(* C10: an update changes of the collection only the tagged objects: each    *)
(* light source whose id is the light tag moves by 0.05 along y for Y (up)   *)
(* and H (down), along z for T and U, along x for J and G, per held key;     *)
(* each mesh whose id is the cube tag gets 0.01 added to yaw, pitch and      *)
(* roll; every other field and object, and the number and order of objects,  *)
(* are as before.                                                            *)
C10_EditsOnlyTagged ==
    (pc = "idle" /\ ticks > 0) =>
        /\ Len(objects) = Len(pre.objects)
        /\ \A i \in 1..Len(pre.objects) :
              /\ objects[i].kind = pre.objects[i].kind
              /\ objects[i].id = pre.objects[i].id
              /\ objects[i].tri_list = pre.objects[i].tri_list
              /\ objects[i].color = pre.objects[i].color
              /\ objects[i].pos =
                    IF pre.objects[i].kind = "LightSource" /\ pre.objects[i].id = LightTag
                    THEN Shifted(pre.objects[i].pos,
                                 Held(keys, "J") - Held(keys, "G"),
                                 Held(keys, "Y") - Held(keys, "H"),
                                 Held(keys, "T") - Held(keys, "U"))
                    ELSE pre.objects[i].pos
              /\ objects[i].rot =
                    IF pre.objects[i].kind = "Mesh" /\ pre.objects[i].id = CubeTag
                    THEN Turned(pre.objects[i].rot)
                    ELSE pre.objects[i].rot

(* An update with H, T and J held on a scene with a tagged and an untagged   *)
(* light, a mesh that carries the light tag and a light that carries the     *)
(* cube tag: only the tagged light has moved, only the tagged mesh turned.   *)
C10_TaggedLightMoved ==
    /\ pc = "idle"
    /\ ticks = 1
    /\ keys = {"H", "T", "J"}
    /\ \E i, j, k, l \in 1..Len(objects) :
          /\ pre.objects[i].kind = "LightSource" /\ pre.objects[i].id = LightTag
          /\ objects[i].pos = Shifted(pre.objects[i].pos, 1, -1, 1)
          /\ pre.objects[j].kind = "LightSource" /\ pre.objects[j].id = "uuid-light2"
          /\ objects[j] = pre.objects[j]
          /\ pre.objects[k].kind = "Mesh" /\ pre.objects[k].id = LightTag
          /\ objects[k] = pre.objects[k]
          /\ pre.objects[l].kind = "LightSource" /\ pre.objects[l].id = CubeTag
          /\ objects[l] = pre.objects[l]
    /\ \E m \in 1..Len(objects) :
          /\ pre.objects[m].kind = "Mesh" /\ pre.objects[m].id = CubeTag
          /\ objects[m].rot = Turned(pre.objects[m].rot)
          /\ objects[m].rot # pre.objects[m].rot

(* The scene as cast_ray reads it.                                           *)
SceneNow == [objects |-> objects, camera |-> camera]

(* C11: every pixel of a frame is computed against the same scene, the one   *)
(* the update began with: cast_ray changes no object and no camera field,    *)
(* and the edits of an update are applied after its last pixel is drawn, so  *)
(* the frame of an update shows the edits of the updates before it and none  *)
(* of its own.                                                               *)
C11_FrameSeesOneScene ==
    /\ \A k \in 1..Len(seen) : seen[k] = pre
    /\ pc = "render" => (SceneNow = pre /\ Len(seen) = iter)
    /\ pc = "edits" => (SceneNow = pre /\ Len(seen) = VIEWPORT_WIDTH * VIEWPORT_HEIGHT)
    /\ (pc = "idle" /\ ticks > 0) => Len(seen) = VIEWPORT_WIDTH * VIEWPORT_HEIGHT

(* The second update has returned with keys held: every pixel of its frame   *)
(* saw the cube as the first update turned it, and neither the second turn   *)
(* of the cube nor the second edit of the camera.                            *)
C11_SecondFrameSeesFirstEdits ==
    /\ pc = "idle"
    /\ ticks = 2
    /\ Len(seen) = VIEWPORT_WIDTH * VIEWPORT_HEIGHT
    /\ camera # pre.camera
    /\ \A k \in 1..Len(seen) : seen[k].camera = pre.camera
    /\ \E m \in 1..Len(objects) :
          /\ objects[m].kind = "Mesh" /\ objects[m].id = CubeTag
          /\ objects[m].rot.yaw = Angle(30, 2)
          /\ \A k \in 1..Len(seen) : seen[k].objects[m].rot.yaw = Angle(30, 1)

(* An update found R held with fov = 65535.                                  *)
IncrementedAtMax == "R" \in keys /\ pre.camera.fov = U16_MAX

(* An update found F held with fov = 0, after the increment for R if R was   *)
(* held too.                                                                 *)
DecrementedAtZero ==
    "F" \in keys /\ (pre.camera.fov + Held(keys, "R")) % (U16_MAX + 1) = 0

(* C12: in every sequence of updates from fov = 40 with any of R and F held, *)
(* fov is never incremented at 65535 nor decremented at 0: no update panics  *)
(* on the fov arithmetic and none wraps around.                              *)
C12_FovNeverOverflows ==
    /\ pc # "panicked"
    /\ camera.fov \in 0..U16_MAX
    /\ (pc = "idle" /\ ticks > 0) =>
          /\ ~IncrementedAtMax
          /\ ~DecrementedAtZero
          /\ camera.fov = pre.camera.fov + Held(keys, "R") - Held(keys, "F")

(* F held in 41 updates: the 41st finds fov = 0 and panics on `fov -= 1`     *)
(* in a build with overflow checks.                                          *)
C12_DecrementAtZeroPanics ==
    /\ pc = "panicked"
    /\ ticks = 40
    /\ keys = {"F"}
    /\ pre.camera.fov = 0
    /\ camera.fov = 0

=============================================================================
